---- MODULE Spec2Model ----
(***************************************************************************)
(* State-machine model of run.py: the Plex session poller, the finished    *)
(* watcher (scan loop), the post-finish harvest workers, the like/dislike  *)
(* store and the Lidarr purge flow.                                        *)
(*                                                                         *)
(* Conventions.  A Python string is a tuple of one-character strings.      *)
(* Python None is the marker None below.  An XML numeric attribute is a    *)
(* record [kind, val]: absent, unparsable, or a number.  A float that is a *)
(* quotient of two attributes is a reduced fraction <<num, den>>; a rating *)
(* is an integer number of hundredths.  The JSON files are read and        *)
(* written reliably (file-system failures are outside the model).          *)
(***************************************************************************)
EXTENDS Integers, Sequences, FiniteSets, TLC

\* ------------------------------------------------------------------ bounds
NumTracks == 2      \* tracks the media server can report
MaxLaunch == 2      \* cap on harvest workers recorded per session id

\* ----------------------------------------------------------------- strings
None == <<"None">>
Absent == <<"Absent">>

\* bool(x) of a str-or-None value
Truthy(x) == x # None /\ x # <<>>

\* str(x) / f"{x}" of a str-or-None value
Str(x) == IF x = None THEN <<"N", "o", "n", "e">> ELSE x

LowerChar(c) ==
  CASE c = "A" -> "a"
    [] c = "B" -> "b"
    [] c = "L" -> "l"
    [] c = "N" -> "n"
    [] c = "T" -> "t"
    [] c = "U" -> "u"
    [] OTHER -> c

\* s.lower()
Lower(s) == [i \in 1..Len(s) |-> LowerChar(s[i])]

\* sub in s
Contains(sub, s) ==
  \E i \in 0..(Len(s) - Len(sub)) : SubSeq(s, i + 1, i + Len(sub)) = sub

\* s.split("/")[-1]
RECURSIVE LastSegment(_)
LastSegment(s) ==
  IF s = <<>> THEN <<>>
  ELSE IF s[Len(s)] = "/" THEN <<>>
  ELSE Append(LastSegment(SubSeq(s, 1, Len(s) - 1)), s[Len(s)])

\* ------------------------------------------------------ numeric attributes
NoAttr == [kind |-> "none", val |-> 0]
BadAttr == [kind |-> "bad", val |-> 0]
Num(n) == [kind |-> "num", val |-> n]

RECURSIVE Gcd(_, _)
Gcd(a, b) == IF b = 0 THEN a ELSE Gcd(b, a % b)

Reduce(n, d) == LET g == Gcd(n, d) IN <<n \div g, d \div g>>

ZeroFrac == <<0, 1>>

\* frac = float(view_offset or 0) / float(duration or 1), 0.0 on any exception
ProgressFraction(view_offset, duration) ==
  IF view_offset.kind = "bad" \/ duration.kind = "bad" THEN ZeroFrac
  ELSE LET n == IF view_offset.kind = "none" THEN 0 ELSE view_offset.val
           d == IF duration.kind = "none" THEN 1 ELSE duration.val
       IN IF d = 0 THEN ZeroFrac ELSE Reduce(n, d)

\* ----------------------------------------------------- rating normalization
\* abs(f - c) < 0.1 in IEEE double arithmetic, f and c in hundredths: the
\* inputs at distance exactly 0.10 round to either side of 0.1.
FloatNear(f, c) ==
  \/ (IF f >= c THEN f - c ELSE c - f) < 10
  \/ <<f, c>> \in {<<990, 1000>>, <<1010, 1000>>, <<490, 500>>, <<510, 500>>,
                   <<90, 100>>}

\* (mutant) the two buckets exchanged
_normalize_rating_swapped(val) ==
  IF val.kind # "num" THEN "none"
  ELSE IF FloatNear(val.val, 1000) \/ FloatNear(val.val, 500) THEN "dislike"
  ELSE IF FloatNear(val.val, 200) \/ FloatNear(val.val, 100) THEN "like"
  ELSE "none"

_normalize_rating(val) ==
  IF val.kind # "num" THEN "none"
  ELSE IF FloatNear(val.val, 1000) \/ FloatNear(val.val, 500) THEN "like"
  ELSE IF FloatNear(val.val, 200) \/ FloatNear(val.val, 100) THEN "dislike"
  ELSE "none"

\* ------------------------------------------------ the media server's tracks
Tracks == 1..NumTracks

\* static attributes of the i-th <Track> element the server can report
TrackAttrs(i) ==
  CASE i = 1 -> [artist |-> <<"A">>, album |-> <<"L">>, track |-> <<"T">>,
                 guid |-> <<"p", "/", "g">>, ratingKey |-> <<"1">>]
    [] i = 2 -> [artist |-> <<"B">>, album |-> None, track |-> <<"U">>,
                 guid |-> None, ratingKey |-> <<"2">>]
    [] i = 3 -> [artist |-> <<"A">>, album |-> <<"L">>, track |-> <<"U">>,
                 guid |-> <<"p", "/", "g">>, ratingKey |-> None]
    [] OTHER -> [artist |-> <<"A">>, album |-> None, track |-> <<"T">>,
                 guid |-> None, ratingKey |-> <<"4">>]

\* sid = rating_key or f"{artist}-{title}"
SessionId(a) ==
  IF Truthy(a.ratingKey) THEN a.ratingKey
  ELSE Str(a.artist) \o <<"-">> \o Str(a.track)

Sids == {SessionId(TrackAttrs(i)) : i \in Tracks}

\* the dynamic attributes of one observation of a playing track
\* (position / duration 1/2 for odd elements, 2/1 for even ones)
Observations(i) ==
  IF i % 2 = 1
  THEN {[viewOffset |-> Num(1), duration |-> Num(2), userRating |-> NoAttr]}
  ELSE {[viewOffset |-> Num(2), duration |-> Num(1), userRating |-> Num(1000)]}

\* the dict stored in CURRENT_TRACKS[sid] for element i observed as o
Snapshot(i, o) ==
  LET a == TrackAttrs(i) IN
  [artist |-> a.artist, album |-> a.album, track |-> a.track, guid |-> a.guid,
   ratingKey |-> a.ratingKey,
   progress_fraction |-> ProgressFraction(o.viewOffset, o.duration),
   user_rating_raw |-> o.userRating]

\* ------------------------------------------------------ Lidarr responses
NoId == -1   \* a hit without an "id" (hit.get("id") is None); also "no match"

\* candidates the library service can return (album: Absent = no album key,
\* None = JSON null, else the album's title)
HitA == [id |-> 7, title |-> <<"T">>, artistName |-> <<"x", "A">>,
         album |-> Absent, hasFile |-> TRUE]
HitB == [id |-> 8, title |-> <<"u">>, artistName |-> <<"b">>,
         album |-> <<"l">>, hasFile |-> FALSE]
HitLow == [id |-> 9, title |-> <<"z">>, artistName |-> <<"z">>,
           album |-> Absent, hasFile |-> TRUE]
HitNoId == [id |-> NoId, title |-> <<"t">>, artistName |-> <<"a">>,
            album |-> Absent, hasFile |-> FALSE]
HitNullAlbum == [id |-> 6, title |-> <<"t">>, artistName |-> <<"a">>,
                 album |-> None, hasFile |-> FALSE]

RespList(l) == [kind |-> "list", results |-> l]
SearchResponses ==
  {[kind |-> "exc", results |-> <<>>],       \* requests.get raises
   [kind |-> "non200", results |-> <<>>],    \* status_code != 200
   [kind |-> "badjson", results |-> <<>>],   \* resp.json() raises
   RespList(<<>>), RespList(<<HitLow>>), RespList(<<HitA>>),
   RespList(<<HitB, HitA>>), RespList(<<HitNoId>>), RespList(<<HitNullAlbum>>)}

\* ---------------------------------------------------------- match scoring
HitAlbumTitle(hit) == IF hit.album = Absent THEN <<>> ELSE hit.album

_score_lidarr_candidate(hit, artist_lower, track_lower, album_lower) ==
  LET hit_title == Lower(Str(hit.title))
      hit_artist == Lower(Str(hit.artistName))
      hit_album == Lower(HitAlbumTitle(hit))
  IN (IF artist_lower # <<>> /\ Contains(artist_lower, hit_artist) THEN 2 ELSE 0)
   + (IF track_lower # <<>> /\ Contains(track_lower, hit_title) THEN 2 ELSE 0)
   + (IF album_lower # <<>> /\ Contains(album_lower, hit_album) THEN 2 ELSE 0)
   + (IF hit.hasFile THEN 1 ELSE 0)

\* hit.get("album", {}).get("title", "") raises AttributeError on a null album
ScoreRaises(results) == \E i \in 1..Len(results) : results[i].album = None

OrEmpty(x) == IF Truthy(x) THEN x ELSE <<>>

Score(hit, snap) ==
  _score_lidarr_candidate(hit, Lower(OrEmpty(snap.artist)),
                          Lower(OrEmpty(snap.track)), Lower(OrEmpty(snap.album)))

\* (mutant) of several candidates of maximal score the last one is taken
PyMax_last(results, snap) ==
  LET best == CHOOSE i \in 1..Len(results) :
                /\ \A j \in 1..Len(results) :
                     Score(results[j], snap) <= Score(results[i], snap)
                /\ \A j \in (i + 1)..Len(results) :
                     Score(results[j], snap) < Score(results[i], snap)
  IN results[best]

\* max(results, key=score): the first element of maximal score
PyMax(results, snap) ==
  LET best == CHOOSE i \in 1..Len(results) :
                /\ \A j \in 1..Len(results) :
                     Score(results[j], snap) <= Score(results[i], snap)
                /\ \A j \in 1..(i - 1) :
                     Score(results[j], snap) < Score(results[i], snap)
  IN results[best]

AppendIfNew(terms, t) == IF t \in {terms[i] : i \in 1..Len(terms)} THEN terms
                         ELSE Append(terms, t)

\* the search_terms list of lidarr_track_lookup_multi
SearchTerms(artist_name, track_title, album_title, guid_raw) ==
  LET t1 == IF Truthy(artist_name) /\ Truthy(track_title)
            THEN <<artist_name \o <<" ">> \o track_title>> ELSE <<>>
      t2 == IF Truthy(artist_name) /\ Truthy(album_title)
            THEN <<artist_name \o <<" ">> \o album_title>> ELSE <<>>
      t3 == IF Truthy(track_title) THEN <<track_title>> ELSE <<>>
      t4 == IF Truthy(album_title) /\ Truthy(artist_name)
            THEN <<album_title \o <<" ">> \o artist_name>> ELSE <<>>
      base == t1 \o t2 \o t3 \o t4
      guid_tail == IF Truthy(guid_raw) THEN LastSegment(guid_raw) ELSE <<>>
  IN IF guid_tail # <<>> THEN AppendIfNew(base, guid_tail) ELSE base

\* ------------------------------------------------------------------- state
VARIABLES
  CURRENT_TRACKS,              \* dict sid -> snapshot
  RECENTLY_FINISHED,           \* dict sid -> snapshot
  FINISHED_ALREADY_SCHEDULED,  \* set of sids
  last_active,                 \* local of poll_plex_sessions
  reported,                    \* sids the server listed in the last successful poll
  emitted,                     \* sid -> insertions into RECENTLY_FINISHED by the last cycle
  scan_pc,                     \* finished_watcher_loop: "sleep", "iter" or "mark"
  scan_items,                  \* what is left of list(RECENTLY_FINISHED.items())
  scan_cur,                    \* the session id whose thread was just started
  workers,                     \* sid -> the harvest threads started for it, in order
  liked,                       \* liked.json: artist -> entry
  disliked,                    \* disliked.json: artist -> entry
  clock,                       \* datetime.now(), as a logical clock
  lidarr_configured            \* LIDARR_URL and LIDARR_API_KEY are both set

pollVars == <<CURRENT_TRACKS, RECENTLY_FINISHED, last_active, reported, emitted>>
scanVars == <<scan_pc, scan_items, scan_cur>>
storeVars == <<liked, disliked, clock>>
vars == <<CURRENT_TRACKS, RECENTLY_FINISHED, FINISHED_ALREADY_SCHEDULED,
          last_active, reported, emitted, scan_pc, scan_items, scan_cur,
          workers, liked, disliked, clock, lidarr_configured>>

EmptyDict == [s \in {} |-> None]
NoEvents == [s \in Sids |-> 0]
NoSid == <<>>

Init ==
  /\ CURRENT_TRACKS = EmptyDict
  /\ RECENTLY_FINISHED = EmptyDict
  /\ FINISHED_ALREADY_SCHEDULED = {}
  /\ last_active = {}
  /\ reported = {}
  /\ emitted = NoEvents
  /\ scan_pc = "sleep"
  /\ scan_items = EmptyDict
  /\ scan_cur = NoSid
  /\ workers = [s \in Sids |-> <<>>]
  /\ liked = EmptyDict
  /\ disliked = EmptyDict
  /\ clock = 0
  /\ lidarr_configured \in BOOLEAN

\* d[k] = v
DictSet(d, k, v) == [x \in DOMAIN d \cup {k} |-> IF x = k THEN v ELSE d[x]]
\* d without the key k
DictDel(d, k) == [x \in DOMAIN d \ {k} |-> d[x]]

\* ------------------------------------------------------------- Plex poller
\* (mutant) every id ever seen that is not listed now counts as ended
Ended_all_known(last, seen_now) == DOMAIN CURRENT_TRACKS \ seen_now

\* ended = last_active - seen_now
Ended(last, seen_now) == last \ seen_now

\* (mutant) a failed poll forgets which sessions were active
PollFail_forgets ==
  /\ emitted' = NoEvents
  /\ last_active' = {}
  /\ UNCHANGED <<CURRENT_TRACKS, RECENTLY_FINISHED, FINISHED_ALREADY_SCHEDULED,
                 reported, scanVars, workers, storeVars, lidarr_configured>>

\* r.status_code != 200 (sleep, continue), or the request or ET.fromstring
\* raises (caught by the loop's except): nothing is assigned
PollFail ==
  /\ emitted' = NoEvents
  /\ UNCHANGED <<CURRENT_TRACKS, RECENTLY_FINISHED, FINISHED_ALREADY_SCHEDULED,
                 last_active, reported, scanVars, workers, storeVars,
                 lidarr_configured>>

\* (mutant) an id that is already in RECENTLY_FINISHED keeps its old snapshot
PollCycle_keeps_first(seen, obs) ==
  LET seen_now == {SessionId(TrackAttrs(i)) : i \in seen}
      elem(s) == CHOOSE i \in seen : SessionId(TrackAttrs(i)) = s
      current == [s \in DOMAIN CURRENT_TRACKS \cup seen_now |->
                    IF s \in seen_now THEN Snapshot(elem(s), obs[elem(s)])
                    ELSE CURRENT_TRACKS[s]]
      ended == {e \in Ended(last_active, seen_now) : e \in DOMAIN current}
  IN /\ CURRENT_TRACKS' = current
     /\ RECENTLY_FINISHED' =
          [s \in DOMAIN RECENTLY_FINISHED \cup ended |->
             IF s \in DOMAIN RECENTLY_FINISHED THEN RECENTLY_FINISHED[s]
             ELSE current[s]]
     /\ last_active' = seen_now
     /\ reported' = seen_now
     /\ emitted' = [s \in Sids |-> IF s \in ended THEN 1 ELSE 0]
     /\ UNCHANGED <<FINISHED_ALREADY_SCHEDULED, scanVars, workers, storeVars,
                    lidarr_configured>>

\* one successful cycle: the listing holds the elements `seen`, observed as obs
PollCycle(seen, obs) ==
  LET seen_now == {SessionId(TrackAttrs(i)) : i \in seen}
      elem(s) == CHOOSE i \in seen : SessionId(TrackAttrs(i)) = s
      current == [s \in DOMAIN CURRENT_TRACKS \cup seen_now |->
                    IF s \in seen_now THEN Snapshot(elem(s), obs[elem(s)])
                    ELSE CURRENT_TRACKS[s]]
      ended == {e \in Ended(last_active, seen_now) : e \in DOMAIN current}
  IN /\ CURRENT_TRACKS' = current
     /\ RECENTLY_FINISHED' =
          [s \in DOMAIN RECENTLY_FINISHED \cup ended |->
             IF s \in ended THEN current[s] ELSE RECENTLY_FINISHED[s]]
     /\ last_active' = seen_now
     /\ reported' = seen_now
     /\ emitted' = [s \in Sids |-> IF s \in ended THEN 1 ELSE 0]
     /\ UNCHANGED <<FINISHED_ALREADY_SCHEDULED, scanVars, workers, storeVars,
                    lidarr_configured>>

AllObservations == UNION {Observations(i) : i \in Tracks}

PollSuccess ==
  \E seen \in SUBSET Tracks : \E obs \in [seen -> AllObservations] :
    /\ \A i \in seen : obs[i] \in Observations(i)
    /\ PollCycle(seen, obs)

\* ------------------------------------------------- finished_watcher_loop
\* the thread object created for (session_id, snap), before it runs
NewWorker(snap) ==
  [snap |-> snap, pc |-> "fetch", status |-> "", raw |-> NoAttr, bucket |-> "",
   loaded |-> EmptyDict, term |-> 1, results |-> <<>>, match |-> NoId,
   searched |-> FALSE, deletes |-> <<>>, writes |-> 0, acted |-> "",
   raised |-> FALSE]

\* (mutant) the membership test is dropped
AlreadyScheduled_never(session_id) == FALSE

\* session_id in _FINISHED_ALREADY_SCHEDULED
AlreadyScheduled(session_id) == session_id \in FINISHED_ALREADY_SCHEDULED

\* list(RECENTLY_FINISHED.items())
ScanBegin ==
  /\ scan_pc = "sleep"
  /\ scan_pc' = "iter"
  /\ scan_items' = RECENTLY_FINISHED
  /\ UNCHANGED <<pollVars, FINISHED_ALREADY_SCHEDULED, scan_cur, workers,
                 storeVars, lidarr_configured>>

\* if session_id in _FINISHED_ALREADY_SCHEDULED: continue
ScanSkip(s) ==
  /\ scan_pc = "iter"
  /\ s \in DOMAIN scan_items
  /\ AlreadyScheduled(s)
  /\ scan_items' = DictDel(scan_items, s)
  /\ UNCHANGED <<pollVars, FINISHED_ALREADY_SCHEDULED, scan_pc, scan_cur,
                 workers, storeVars, lidarr_configured>>

\* t = threading.Thread(...); t.start()
ScanLaunch(s) ==
  /\ scan_pc = "iter"
  /\ s \in DOMAIN scan_items
  /\ ~AlreadyScheduled(s)
  /\ Len(workers[s]) < MaxLaunch
  /\ workers' = [workers EXCEPT ![s] = Append(@, NewWorker(scan_items[s]))]
  /\ scan_items' = DictDel(scan_items, s)
  /\ scan_cur' = s
  /\ scan_pc' = "mark"
  /\ UNCHANGED <<pollVars, FINISHED_ALREADY_SCHEDULED, storeVars,
                 lidarr_configured>>

\* _FINISHED_ALREADY_SCHEDULED.add(session_id)
ScanMark ==
  /\ scan_pc = "mark"
  /\ FINISHED_ALREADY_SCHEDULED' = FINISHED_ALREADY_SCHEDULED \cup {scan_cur}
  /\ scan_cur' = NoSid
  /\ scan_pc' = "iter"
  /\ UNCHANGED <<pollVars, scan_items, workers, storeVars, lidarr_configured>>

\* the for loop is exhausted: time.sleep(5)
ScanSleep ==
  /\ scan_pc = "iter"
  /\ DOMAIN scan_items = {}
  /\ scan_pc' = "sleep"
  /\ UNCHANGED <<pollVars, FINISHED_ALREADY_SCHEDULED, scan_items, scan_cur,
                 workers, storeVars, lidarr_configured>>

ScanStep ==
  \/ ScanBegin
  \/ \E s \in Sids : ScanSkip(s)
  \/ \E s \in Sids : ScanLaunch(s)
  \/ ScanMark
  \/ ScanSleep

\* ------------------------------------------------------ like/dislike store
TracksOf(store, artist) ==
  IF artist \in DOMAIN store THEN store[artist].tracks ELSE <<>>

\* (mutant) the entry is stamped but the track is not appended
add_like_no_append(loaded, artist, track, now) ==
  DictSet(loaded, artist,
          [tracks |-> TracksOf(loaded, artist), last_seen |-> now])

\* (mutant) the membership test before the append is dropped
add_like_always_append(loaded, artist, track, now) ==
  DictSet(loaded, artist,
          [tracks |-> Append(TracksOf(loaded, artist), track), last_seen |-> now])

\* add_like between its load and its save: the dict written to liked.json
add_like(loaded, artist, track, now) ==
  DictSet(loaded, artist,
          [tracks |-> AppendIfNew(TracksOf(loaded, artist), track),
           last_seen |-> now])

\* add_dislike (ban_artist=False) between its load and its save
add_dislike(loaded, artist, track, now) ==
  DictSet(loaded, artist,
          [tracks |-> AppendIfNew(TracksOf(loaded, artist), track),
           ban_artist |-> IF artist \in DOMAIN loaded
                          THEN loaded[artist].ban_artist ELSE FALSE,
           last_seen |-> now])

\* ---------------------------------------------------------- harvest worker
FinalRatings == {NoAttr, BadAttr, Num(1000), Num(100), Num(700)}
FetchResponses ==
  {[kind |-> k, rating |-> NoAttr] : k \in {"exc", "non200", "badxml", "notrack"}}
  \cup {[kind |-> "ok", rating |-> r] : r \in FinalRatings}

\* the thread ends; its locals are dropped
Finish(w) == [w EXCEPT !.pc = "done", !.raw = NoAttr, !.loaded = EmptyDict,
                       !.term = 1, !.results = <<>>]

\* (mutant) a non-200 response does not end the worker: it fetches again
AfterFetch_retries(w, r) ==
  CASE r.kind \in {"exc", "badxml"} ->
         [Finish(w) EXCEPT !.status = "exc", !.raised = TRUE]
    [] r.kind = "non200" -> [w EXCEPT !.status = "non200"]
    [] r.kind = "notrack" -> [Finish(w) EXCEPT !.status = "notrack"]
    [] OTHER ->
         LET normalized_bucket == _normalize_rating(r.rating) IN
         IF normalized_bucket \in {"like", "dislike"}
         THEN [w EXCEPT !.pc = "load", !.status = "ok", !.raw = r.rating,
                        !.bucket = normalized_bucket]
         ELSE [Finish(w) EXCEPT !.status = "ok", !.bucket = normalized_bucket,
                                !.acted = "false"]

\* the worker after the metadata response r (lines 373-398), up to the call
\* of add_like / add_dislike
AfterFetch(w, r) ==
  CASE r.kind \in {"exc", "badxml"} ->
         [Finish(w) EXCEPT !.status = "exc", !.raised = TRUE]
    [] r.kind = "non200" -> [Finish(w) EXCEPT !.status = "non200"]
    [] r.kind = "notrack" -> [Finish(w) EXCEPT !.status = "notrack"]
    [] OTHER ->
         LET normalized_bucket == _normalize_rating(r.rating) IN
         IF normalized_bucket \in {"like", "dislike"}
         THEN [w EXCEPT !.pc = "load", !.status = "ok", !.raw = r.rating,
                        !.bucket = normalized_bucket]
         ELSE [Finish(w) EXCEPT !.status = "ok", !.bucket = normalized_bucket,
                                !.acted = "false"]

OtherVarsOfWorker ==
  <<pollVars, FINISHED_ALREADY_SCHEDULED, scanVars, lidarr_configured>>

\* (mutant) the test of the ratingKey is dropped: the metadata is fetched
\* for every snapshot
WFetchFrom_no_key_test(s, k, responses) ==
  LET w == workers[s][k] IN
  /\ w.pc = "fetch"
  /\ \E r \in responses :
       workers' = [workers EXCEPT ![s][k] = AfterFetch(w, r)]
  /\ UNCHANGED <<OtherVarsOfWorker, storeVars>>

\* if not rating_key: return; sleep; requests.get(meta_url); normalize
\* (the server answers with one of `responses`)
WFetchFrom(s, k, responses) ==
  LET w == workers[s][k] IN
  /\ w.pc = "fetch"
  /\ IF ~Truthy(w.snap.ratingKey)
     THEN workers' = [workers EXCEPT ![s][k] = [Finish(w) EXCEPT !.status = "nokey"]]
     ELSE \E r \in responses :
            workers' = [workers EXCEPT ![s][k] = AfterFetch(w, r)]
  /\ UNCHANGED <<OtherVarsOfWorker, storeVars>>

WFetch(s, k) == WFetchFrom(s, k, FetchResponses)

\* _load_json_file(LIKED_PATH) / _load_json_file(DISLIKED_PATH)
WLoad(s, k) ==
  LET w == workers[s][k] IN
  /\ w.pc = "load"
  /\ workers' = [workers EXCEPT ![s][k] =
       [w EXCEPT !.pc = "save",
                 !.loaded = IF w.bucket = "like" THEN liked ELSE disliked]]
  /\ UNCHANGED <<OtherVarsOfWorker, storeVars>>

\* (mutant) the return after add_like is missing: a like falls through to
\* the purge
AfterSave_always_purge(w) ==
  [w EXCEPT !.pc = "lookup", !.writes = @ + 1, !.loaded = EmptyDict]

\* _act_on_rating once add_like / add_dislike has returned: "like" returns
\* True, "dislike" goes on to purge_with_lidarr
AfterSave(w) ==
  IF w.bucket = "like"
  THEN [Finish(w) EXCEPT !.writes = @ + 1, !.acted = "true"]
  ELSE [w EXCEPT !.pc = "lookup", !.writes = @ + 1, !.loaded = EmptyDict]

\* the rest of add_like / add_dislike: update the entry, stamp it, save
WSave(s, k) ==
  LET w == workers[s][k]
      now == clock + 1
  IN /\ w.pc = "save"
     /\ clock' = now
     /\ IF w.bucket = "like"
        THEN /\ liked' = add_like(w.loaded, w.snap.artist, w.snap.track, now)
             /\ UNCHANGED disliked
        ELSE /\ disliked' = add_dislike(w.loaded, w.snap.artist, w.snap.track, now)
             /\ UNCHANGED liked
     /\ workers' = [workers EXCEPT ![s][k] = AfterSave(w)]
     /\ UNCHANGED OtherVarsOfWorker

\* the for loop of lidarr_track_lookup_multi moves to the next term, or ends
\* (return None: purge_with_lidarr and _act_on_rating return)
NextTerm(w, nterms) ==
  IF w.term < nterms THEN [w EXCEPT !.term = @ + 1]
  ELSE [Finish(w) EXCEPT !.acted = "true"]

\* (mutant) the AttributeError of the scoring is swallowed inside the loop:
\* the lookup goes on with the next term
AfterSearch_raise_continues(w0, resp, nterms) ==
  LET w == [w0 EXCEPT !.searched = TRUE] IN
  IF resp.kind # "list" \/ resp.results = <<>> THEN NextTerm(w, nterms)
  ELSE IF ScoreRaises(resp.results)
       THEN NextTerm([w EXCEPT !.raised = TRUE], nterms)
  ELSE LET best == PyMax(resp.results, w.snap)
           best_score == Score(best, w.snap)
       IN IF best_score >= 2 /\ best.id # NoId
          THEN [w EXCEPT !.pc = "delete", !.match = best.id,
                         !.results = resp.results]
          ELSE NextTerm(w, nterms)

\* one iteration of the for loop, the response being resp
AfterSearch(w0, resp, nterms) ==
  LET w == [w0 EXCEPT !.searched = TRUE] IN
  IF resp.kind # "list" \/ resp.results = <<>> THEN NextTerm(w, nterms)
  ELSE IF ScoreRaises(resp.results) THEN [Finish(w) EXCEPT !.raised = TRUE]
  ELSE LET best == PyMax(resp.results, w.snap)
           best_score == Score(best, w.snap)
       IN IF best_score >= 2 /\ best.id # NoId
          THEN [w EXCEPT !.pc = "delete", !.match = best.id,
                         !.results = resp.results]
          ELSE NextTerm(w, nterms)

\* purge_with_lidarr -> lidarr_track_lookup_multi: one search request
\* (the library service answers with one of `responses`)
WSearchFrom(s, k, responses) ==
  LET w == workers[s][k]
      terms == SearchTerms(w.snap.artist, w.snap.track, w.snap.album, w.snap.guid)
  IN /\ w.pc = "lookup"
     /\ IF ~lidarr_configured \/ terms = <<>>
        THEN workers' = [workers EXCEPT ![s][k] = [Finish(w) EXCEPT !.acted = "true"]]
        ELSE \E resp \in responses :
               workers' = [workers EXCEPT ![s][k] = AfterSearch(w, resp, Len(terms))]
     /\ UNCHANGED <<OtherVarsOfWorker, storeVars>>

WSearch(s, k) == WSearchFrom(s, k, SearchResponses)

\* (mutant) a failed delete is tried again
AfterDelete_retry(w, ok) ==
  IF ok
  THEN [Finish(w) EXCEPT !.deletes = Append(@, [id |-> w.match, ok |-> ok]),
                         !.acted = "true"]
  ELSE [w EXCEPT !.deletes = Append(@, [id |-> w.match, ok |-> ok])]

\* ok = lidarr_delete_track(track_id), then purge and _act_on_rating return
AfterDelete(w, ok) ==
  [Finish(w) EXCEPT !.deletes = Append(@, [id |-> w.match, ok |-> ok]),
                    !.acted = "true"]

\* lidarr_delete_track: one DELETE request; ok iff the status is 200/202/204
WDelete(s, k) ==
  LET w == workers[s][k] IN
  /\ w.pc = "delete"
  /\ IF ~lidarr_configured
     THEN workers' = [workers EXCEPT ![s][k] = [Finish(w) EXCEPT !.acted = "true"]]
     ELSE \E ok \in BOOLEAN :
            workers' = [workers EXCEPT ![s][k] = AfterDelete(w, ok)]
  /\ UNCHANGED <<OtherVarsOfWorker, storeVars>>

WorkerStep(s, k) ==
  /\ k \in 1..Len(workers[s])
  /\ \/ WFetch(s, k)
     \/ WLoad(s, k)
     \/ WSave(s, k)
     \/ WSearch(s, k)
     \/ WDelete(s, k)

\* ------------------------------------------------------------ the program
Next ==
  \/ PollFail
  \/ PollSuccess
  \/ ScanStep
  \/ \E s \in Sids : \E k \in 1..MaxLaunch : WorkerStep(s, k)

Spec == Init /\ [][Next]_vars

\* Both loops are threads that never return and every request has a timeout,
\* so each step of the scan loop and of a started worker is eventually taken.
FairSpec ==
  /\ Spec
  /\ WF_vars(ScanStep)
  /\ \A s \in Sids : \A k \in 1..MaxLaunch : WF_vars(WorkerStep(s, k))

\* ------------------------------------- the store under a sequence of calls
MaxCalls == 4       \* calls of add_like / add_dislike in one sequence

Artists == {TrackAttrs(i).artist : i \in Tracks}
Titles == {TrackAttrs(i).track : i \in Tracks}

\* one whole call add_like(artist, track): load, update, stamp, save
AddLikeCall(artist, track) ==
  /\ clock < MaxCalls
  /\ clock' = clock + 1
  /\ liked' = add_like(liked, artist, track, clock + 1)
  /\ UNCHANGED <<pollVars, FINISHED_ALREADY_SCHEDULED, scanVars, workers,
                 disliked, lidarr_configured>>

\* one whole call add_dislike(artist, track)
AddDislikeCall(artist, track) ==
  /\ clock < MaxCalls
  /\ clock' = clock + 1
  /\ disliked' = add_dislike(disliked, artist, track, clock + 1)
  /\ UNCHANGED <<pollVars, FINISHED_ALREADY_SCHEDULED, scanVars, workers,
                 liked, lidarr_configured>>

StoreNext ==
  \E artist \in Artists : \E track \in Titles :
    \/ AddLikeCall(artist, track)
    \/ AddDislikeCall(artist, track)

\* any sequence of calls, one after the other, from the empty files
StoreSpec == Init /\ [][StoreNext]_vars

\* ------------------------------------- one harvest, over a wider input set
\* terminal snapshots of a track with ratingKey "1": with every attribute,
\* without artist, album and guid, with an empty album, with a guid whose
\* tail is the title, and with nothing but the ratingKey
HarvestSnaps ==
  {[artist |-> a[1], album |-> a[2], track |-> a[3], guid |-> a[4],
    ratingKey |-> <<"1">>, progress_fraction |-> <<1, 2>>,
    user_rating_raw |-> NoAttr] :
     a \in {<< <<"A">>, <<"L">>, <<"T">>, <<"p", "/", "g">> >>,
            << None, None, <<"T">>, None >>,
            << <<"A">>, <<>>, <<"T">>, None >>,
            << None, None, <<"T">>, <<"p", "/", "T">> >>,
            << None, None, None, None >>}}

\* userRating values (hundredths) of the metadata answer: the buckets'
\* centres, values inside, on and outside the 0.1 margins, and others
HarvestRatings ==
  {NoAttr, BadAttr} \cup
  {Num(n) : n \in {1000, 505, 100, 208, 700, 0, 990, 1010, 490, 510, 190, 210,
                   90, 110, 989, 1011, 489, 511, 189, 211, 89, 111, 991, 191}}

HarvestFetchResponses ==
  {[kind |-> k, rating |-> NoAttr] : k \in {"exc", "non200", "badxml", "notrack"}}
  \cup {[kind |-> "ok", rating |-> r] : r \in HarvestRatings}

\* a second candidate with the score of HitA
HitA2 == [id |-> 5, title |-> <<"T">>, artistName |-> <<"A">>,
          album |-> Absent, hasFile |-> TRUE]

HarvestSearchResponses ==
  SearchResponses \cup
  {RespList(<<HitA, HitA2>>), RespList(<<HitA, HitB>>), RespList(<<HitLow, HitNoId>>)}

\* the state in which the scan loop has started (and marked) the harvest of
\* session "1" with snapshot snap, before the worker's first step
HarvestInit ==
  \E snap \in HarvestSnaps :
    /\ CURRENT_TRACKS = [s \in {<<"1">>} |-> snap]
    /\ RECENTLY_FINISHED = [s \in {<<"1">>} |-> snap]
    /\ FINISHED_ALREADY_SCHEDULED = {<<"1">>}
    /\ last_active = {}
    /\ reported = {}
    /\ emitted = NoEvents
    /\ scan_pc = "sleep"
    /\ scan_items = EmptyDict
    /\ scan_cur = NoSid
    /\ workers = [s \in Sids |-> IF s = <<"1">> THEN <<NewWorker(snap)>> ELSE <<>>]
    /\ liked = EmptyDict
    /\ disliked = EmptyDict
    /\ clock = 0
    /\ lidarr_configured \in BOOLEAN

HarvestStep(s, k) ==
  /\ k \in 1..Len(workers[s])
  /\ \/ WFetchFrom(s, k, HarvestFetchResponses)
     \/ WLoad(s, k)
     \/ WSave(s, k)
     \/ WSearchFrom(s, k, HarvestSearchResponses)
     \/ WDelete(s, k)

HarvestNext == \E s \in Sids : \E k \in 1..MaxLaunch : HarvestStep(s, k)

HarvestSpec == HarvestInit /\ [][HarvestNext]_vars

\* ------------------------ the two loops, with sessions observed differently
\* a second observation of each track: played to its end and rated 1.0
TrackerObservations(i) ==
  Observations(i) \cup
  {[viewOffset |-> Num(2), duration |-> Num(2), userRating |-> Num(100)]}

AllTrackerObservations == UNION {TrackerObservations(i) : i \in Tracks}

TrackerPollSuccess ==
  \E seen \in SUBSET Tracks : \E obs \in [seen -> AllTrackerObservations] :
    /\ \A i \in seen : obs[i] \in TrackerObservations(i)
    /\ PollCycle(seen, obs)

\* the poll loop and the scan loop; started workers are in their grace sleep
TrackerNext == PollFail \/ TrackerPollSuccess \/ ScanStep

TrackerSpec == Init /\ [][TrackerNext]_vars

\* ------------------------------ the program with a track without ratingKey
\* the server reports element 1 (ratingKey "1") and element 3 (no ratingKey)
KeylessTracks == {1, 3}
KeylessSids == {SessionId(TrackAttrs(i)) : i \in KeylessTracks}

KeylessInit ==
  /\ CURRENT_TRACKS = EmptyDict
  /\ RECENTLY_FINISHED = EmptyDict
  /\ FINISHED_ALREADY_SCHEDULED = {}
  /\ last_active = {}
  /\ reported = {}
  /\ emitted = NoEvents
  /\ scan_pc = "sleep"
  /\ scan_items = EmptyDict
  /\ scan_cur = NoSid
  /\ workers = [s \in Sids \cup KeylessSids |-> <<>>]
  /\ liked = EmptyDict
  /\ disliked = EmptyDict
  /\ clock = 0
  /\ lidarr_configured \in BOOLEAN

KeylessPollSuccess ==
  \E seen \in SUBSET KeylessTracks : \E obs \in [seen -> AllObservations] :
    /\ \A i \in seen : obs[i] \in Observations(i)
    /\ PollCycle(seen, obs)

KeylessScanStep ==
  \/ ScanBegin
  \/ \E s \in KeylessSids : ScanSkip(s)
  \/ \E s \in KeylessSids : ScanLaunch(s)
  \/ ScanMark
  \/ ScanSleep

KeylessNext ==
  \/ PollFail
  \/ KeylessPollSuccess
  \/ KeylessScanStep
  \/ \E s \in KeylessSids : \E k \in 1..MaxLaunch : WorkerStep(s, k)

KeylessSpec == KeylessInit /\ [][KeylessNext]_vars

\* ------------------------------------------------------------- properties
Worker(s, k) == workers[s][k]
Started == {<<s, k>> \in Sids \X (1..MaxLaunch) : k <= Len(workers[s])}
Range(seq) == {seq[i] : i \in 1..Len(seq)}
TrackIn(store, artist, track) ==
  artist \in DOMAIN store /\ track \in Range(store[artist].tracks)

\* C1: every successful poll inserts into RECENTLY_FINISHED exactly once each
\* id that the previous successful poll listed and this one does not list, and
\* nothing else; a failed poll inserts nothing.  So an id that stays absent
\* gets no further event.
C1_OneEventPerDisappearance ==
  [][pollVars' # pollVars =>
       emitted' = [s \in Sids |-> IF s \in reported \ reported' THEN 1 ELSE 0]]_vars

\* C1 witness: one id has just ended while another, ended earlier, is still
\* absent and gets no new event.
C1_Witness ==
  \E s, t \in Sids :
    /\ emitted[s] = 1
    /\ t # s /\ t \in DOMAIN RECENTLY_FINISHED /\ t \notin reported
    /\ emitted[t] = 0

\* C2: at most one worker is ever started per session id; once the id is in
\* _FINISHED_ALREADY_SCHEDULED no step starts another one for it (also after
\* it reappeared and ended again), and no step removes a started worker or
\* takes the id out of the set.
C2_AtMostOneWorker ==
  /\ [](\A s \in Sids : Len(workers[s]) <= 1)
  /\ [][\A s \in Sids :
          /\ Len(workers'[s]) >= Len(workers[s])
          /\ \A k \in 1..Len(workers[s]) : workers'[s][k].snap = workers[s][k].snap
          /\ s \in FINISHED_ALREADY_SCHEDULED =>
                /\ s \in FINISHED_ALREADY_SCHEDULED'
                /\ Len(workers'[s]) = Len(workers[s])]_vars

\* C2 witness: a scheduled id, with its one worker, has ended a second time.
C2_Witness ==
  \E s \in Sids :
    /\ s \in FINISHED_ALREADY_SCHEDULED
    /\ Len(workers[s]) = 1
    /\ emitted[s] = 1


C8_LiveMapReplaced == DOMAIN CURRENT_TRACKS = reported

InUnit(frac) == 0 <= frac[1] /\ frac[1] <= frac[2]

\* C9 (as claimed): every stored snapshot has a progress fraction in [0,1].
C9_FractionInUnit ==
  /\ \A s \in DOMAIN CURRENT_TRACKS : InUnit(CURRENT_TRACKS[s].progress_fraction)
  /\ \A s \in DOMAIN RECENTLY_FINISHED :
       InUnit(RECENTLY_FINISHED[s].progress_fraction)

\* the catalogue's artist and title of the track whose session id is s
ElemOf(s) == CHOOSE i \in Tracks : SessionId(TrackAttrs(i)) = s
ArtistOf(s) == TrackAttrs(ElemOf(s)).artist
TitleOf(s) == TrackAttrs(ElemOf(s)).track

Dist(a, b) == IF a >= b THEN a - b ELSE b - a
IsLikeRating(raw) ==
  raw.kind = "num" /\ (Dist(raw.val, 1000) < 10 \/ Dist(raw.val, 500) < 10)
IsDislikeRating(raw) ==
  raw.kind = "num" /\ (Dist(raw.val, 200) < 10 \/ Dist(raw.val, 100) < 10)

AllHits == UNION {Range(r.results) : r \in SearchResponses}
HitIds == {h.id : h \in AllHits}

\* every harvest worker that was started has returned
AllHarvestsDone == \A s \in Sids : \A k \in 1..Len(workers[s]) : workers[s][k].pc = "done"

\* worker k of s takes a step from the given pc
StepsFrom(s, k, pc) == workers[s][k].pc = pc /\ workers'[s][k] # workers[s][k]

\* the like (dislike) rating of a harvest is in the liked (disliked)
\* collection when its add_like (add_dislike) returns
RatingRecorded(s, k) ==
  /\ (StepsFrom(s, k, "save") /\ IsLikeRating(workers[s][k].raw))
       => TrackIn(liked', ArtistOf(s), TitleOf(s))
  /\ (StepsFrom(s, k, "save") /\ IsDislikeRating(workers[s][k].raw))
       => TrackIn(disliked', ArtistOf(s), TitleOf(s))

\* C4 (as claimed): under fairness every harvest runs to its end; a like
\* (dislike) rating puts the track into the liked (disliked) collection; and
\* every candidate with score >= 2 that the search returned gets a delete
\* request for its id.
C4_EndToEnd ==
  /\ <>[]AllHarvestsDone
  /\ [][\A s \in Sids : \A k \in 1..Len(workers[s]) :
          /\ RatingRecorded(s, k)
          /\ \A h \in Range(workers[s][k].results) :
               (StepsFrom(s, k, "delete") /\ Score(h, workers[s][k].snap) >= 2)
                 => \E d \in Range(workers'[s][k].deletes) : d.id = h.id]_vars

\* the candidate the lookup is to select from a scored response: the first of
\* those with the greatest score
IsFirstBest(results, i, snap) ==
  /\ \A j \in 1..Len(results) : Score(results[j], snap) <= Score(results[i], snap)
  /\ \A j \in 1..(i - 1) : Score(results[j], snap) < Score(results[i], snap)

\* C4 (amended): as above for the two collections; the delete request is
\* issued for the one candidate the lookup selected, which is the first
\* best-scoring candidate of its response, has score >= 2 and has an id.
C4_EndToEndSelected ==
  /\ <>[]AllHarvestsDone
  /\ [][\A s \in Sids : \A k \in 1..Len(workers[s]) :
          /\ RatingRecorded(s, k)
          /\ StepsFrom(s, k, "delete") =>
               /\ Len(workers'[s][k].deletes) = 1
               /\ \E i \in 1..Len(workers[s][k].results) :
                    /\ IsFirstBest(workers[s][k].results, i, workers[s][k].snap)
                    /\ Score(workers[s][k].results[i], workers[s][k].snap) >= 2
                    /\ workers[s][k].results[i].id # NoId
                    /\ workers'[s][k].deletes[1].id = workers[s][k].results[i].id]_vars

\* C4 witness: a dislike harvest has recorded its track and issued its delete
\* request for the selected candidate, and a like harvest has recorded its
\* track and returned.
C4_Witness ==
  \E s, t \in Sids :
    /\ Len(workers[s]) = 1 /\ workers[s][1].bucket = "dislike"
    /\ workers[s][1].deletes # <<>>
    /\ TrackIn(disliked, ArtistOf(s), TitleOf(s))
    /\ Len(workers[t]) = 1 /\ workers[t][1].bucket = "like"
    /\ workers[t][1].pc = "done"
    /\ TrackIn(liked, ArtistOf(t), TitleOf(t))

\* C5 (as claimed): whenever a harvest is about to issue its delete request,
\* the disliked collection holds its track under its artist; and the delete,
\* failed or not, leaves the disliked collection as it is.
C5_DislikeRecordedBeforeDelete ==
  /\ [](\A s \in Sids : \A k \in 1..Len(workers[s]) :
          workers[s][k].pc = "delete" => TrackIn(disliked, ArtistOf(s), TitleOf(s)))
  /\ [][\A s \in Sids : \A k \in 1..Len(workers[s]) :
          StepsFrom(s, k, "delete") => disliked' = disliked]_vars

\* C6: a purge whose lookup found nothing issues no delete request; a harvest
\* issues at most one delete request, for the candidate it matched, and has
\* returned once it issued it, failed or not; no second harvest of the same
\* session issues another.
C6_AtMostOneDelete ==
  \A s \in Sids :
    /\ \A k \in 1..Len(workers[s]) :
         LET w == workers[s][k] IN
         /\ Len(w.deletes) <= 1
         /\ w.match = NoId => w.deletes = <<>>
         /\ w.deletes # <<>> => w.pc = "done" /\ w.deletes[1].id = w.match
    /\ Cardinality({k \in 1..Len(workers[s]) : workers[s][k].deletes # <<>>}) <= 1

\* C6 witness: one purge has issued a delete that failed and has returned;
\* another purge found no match and has returned without a delete.
C6_Witness ==
  \E s, t \in Sids :
    /\ Len(workers[s]) = 1 /\ workers[s][1].pc = "done"
    /\ workers[s][1].deletes # <<>> /\ ~workers[s][1].deletes[1].ok
    /\ Len(workers[t]) = 1 /\ workers[t][1].pc = "done"
    /\ workers[t][1].bucket = "dislike" /\ workers[t][1].searched
    /\ workers[t][1].match = NoId /\ workers[t][1].deletes = <<>>

\* C7: every step of a harvest whose bucket is "like" leaves the disliked
\* collection alone and issues no search and no delete; its save step puts
\* the track into the liked collection and the routine returns True.  The
\* step that finds the bucket unrated changes neither collection, issues no
\* request and the routine returns False.
C7_LikeAndUnrated ==
  [][\A s \in Sids : \A k \in 1..Len(workers[s]) :
       LET w == workers[s][k]
           w2 == workers'[s][k]
       IN /\ (w2 # w /\ w.bucket = "like") =>
               /\ disliked' = disliked
               /\ ~w2.searched /\ w2.deletes = <<>>
               /\ w.pc = "save" =>
                    /\ TrackIn(liked', w.snap.artist, w.snap.track)
                    /\ w2.pc = "done" /\ w2.acted = "true"
          /\ (w2 # w /\ w2.bucket = "none") =>
               /\ liked' = liked /\ disliked' = disliked
               /\ ~w2.searched /\ w2.deletes = <<>> /\ w2.writes = 0
               /\ w2.pc = "done" /\ w2.acted = "false"]_vars

\* C7 witness: a like harvest has returned True with its track recorded, and
\* an unrated harvest has returned False.
C7_Witness ==
  \E s, t \in Sids :
    /\ Len(workers[s]) = 1 /\ workers[s][1].bucket = "like"
    /\ workers[s][1].pc = "done" /\ workers[s][1].acted = "true"
    /\ TrackIn(liked, ArtistOf(s), TitleOf(s))
    /\ Len(workers[t]) = 1 /\ workers[t][1].bucket = "none"
    /\ workers[t][1].pc = "done" /\ workers[t][1].acted = "false"

\* C10: a harvest whose metadata fetch was answered with a non-200 status has
\* returned, without a store write, a search or a delete; the step that gets
\* the answer changes neither collection; its id is (being) marked scheduled
\* and it stays the only harvest of that id.
C10_NonSuccessFetchAborts ==
  /\ [](\A s \in Sids : \A k \in 1..Len(workers[s]) :
          workers[s][k].status = "non200" =>
            /\ workers[s][k].pc = "done"
            /\ workers[s][k].writes = 0
            /\ ~workers[s][k].searched /\ workers[s][k].deletes = <<>>
            /\ Len(workers[s]) = 1
            /\ s \in FINISHED_ALREADY_SCHEDULED \/ (scan_pc = "mark" /\ scan_cur = s))
  /\ [][\A s \in Sids : \A k \in 1..Len(workers[s]) :
          (workers[s][k].status # "non200" /\ workers'[s][k].status = "non200")
            => (liked' = liked /\ disliked' = disliked)]_vars

\* C10 witness: the fetch failed, the id is scheduled, and the session has
\* since been played and has ended again.
C10_Witness ==
  \E s \in Sids :
    /\ Len(workers[s]) = 1 /\ workers[s][1].status = "non200"
    /\ s \in FINISHED_ALREADY_SCHEDULED
    /\ emitted[s] = 1

\* C11: a harvest in which an exception was raised (by the metadata request,
\* the XML parsing or the decision routine) has returned; the poll loop, the
\* scan loop and every unfinished worker can still take their next step; the
\* id is in the scheduled set (or is being put there by the scan loop) and
\* from then on the worker does nothing more and no other worker is started
\* for the id.
C11_ExceptionEndsOnlyTheWorker ==
  /\ [](\A s \in Sids : \A k \in 1..Len(workers[s]) :
          workers[s][k].raised =>
            /\ workers[s][k].pc = "done"
            /\ s \in FINISHED_ALREADY_SCHEDULED \/ (scan_pc = "mark" /\ scan_cur = s)
            /\ ENABLED PollSuccess
            /\ ENABLED ScanStep
            /\ \A t \in Sids : \A j \in 1..Len(workers[t]) :
                 workers[t][j].pc # "done" => ENABLED WorkerStep(t, j))
  /\ [][\A s \in Sids : \A k \in 1..Len(workers[s]) :
          workers[s][k].raised => workers'[s] = workers[s]]_vars

\* C11 witness: the decision routine of one harvest raised; its id is
\* scheduled and has ended again since; another harvest is still under way.
C11_Witness ==
  \E s, t \in Sids :
    /\ Len(workers[s]) = 1 /\ workers[s][1].raised /\ workers[s][1].searched
    /\ s \in FINISHED_ALREADY_SCHEDULED /\ emitted[s] = 1
    /\ t # s /\ Len(workers[t]) = 1 /\ workers[t][1].pc = "save"

\* C12 (as claimed): whatever the interleaving of the workers, a preference
\* that a worker has written is in its collection from then on: every worker
\* that has saved finds its track under its artist, and no step takes a
\* recorded track out of a collection.
C12_NoLostUpdate ==
  /\ [](\A s \in Sids : \A k \in 1..Len(workers[s]) :
          workers[s][k].writes >= 1 =>
            TrackIn(IF workers[s][k].bucket = "like" THEN liked ELSE disliked,
                    workers[s][k].snap.artist, workers[s][k].snap.track))
  /\ [][\A s \in Sids :
          /\ TrackIn(liked, ArtistOf(s), TitleOf(s))
               => TrackIn(liked', ArtistOf(s), TitleOf(s))
          /\ TrackIn(disliked, ArtistOf(s), TitleOf(s))
               => TrackIn(disliked', ArtistOf(s), TitleOf(s))]_vars

NoDuplicates(seq) == \A i, j \in 1..Len(seq) : i # j => seq[i] # seq[j]
Occurrences(seq, x) == Cardinality({i \in 1..Len(seq) : seq[i] = x})

\* C13: after any sequence of add_like / add_dislike calls no stored track
\* list holds a title twice; and from any such store, add_like called twice
\* with one (artist, track) leaves one occurrence of the track, the second
\* call changing nothing but the artist's last_seen.
C13_NoDuplicateTracks ==
  /\ \A a \in DOMAIN liked : NoDuplicates(liked[a].tracks)
  /\ \A a \in DOMAIN disliked : NoDuplicates(disliked[a].tracks)
  /\ \A artist \in Artists : \A track \in Titles :
       LET once == add_like(liked, artist, track, clock + 1)
           twice == add_like(once, artist, track, clock + 2)
       IN /\ Occurrences(twice[artist].tracks, track) = 1
          /\ twice[artist].tracks = once[artist].tracks
          /\ twice[artist].last_seen = clock + 2
          /\ DOMAIN twice = DOMAIN once
          /\ \A b \in DOMAIN once \ {artist} : twice[b] = once[b]

\* C13 witness: add_like has been called twice, with the same artist and
\* track: two calls were made, none of add_dislike, and the liked collection
\* has one artist with one track, stamped by the second call.
C13_Witness ==
  /\ clock = 2 /\ disliked = EmptyDict
  /\ Cardinality(DOMAIN liked) = 1
  /\ \E a \in DOMAIN liked : Len(liked[a].tracks) = 1 /\ liked[a].last_seen = 2

\* the known value of a snapshot attribute, lower-cased ("" when it is absent)
Known(x) == IF x = None THEN <<>> ELSE Lower(x)
\* 2 points when the known value is not empty and occurs in the candidate's
Points(known, field) == IF known # <<>> /\ Contains(known, Lower(field)) THEN 2 ELSE 0
\* the score of the match rule: artist, title, album containment, has-file
RuleScore(hit, snap) ==
  Points(Known(snap.artist), Str(hit.artistName))
  + Points(Known(snap.track), Str(hit.title))
  + Points(Known(snap.album), IF hit.album = Absent THEN <<>> ELSE hit.album)
  + (IF hit.hasFile THEN 1 ELSE 0)

\* i is the first position of maximal rule score in results
FirstOfMaxRuleScore(results, i, snap) ==
  /\ \A j \in 1..Len(results) : RuleScore(results[j], snap) <= RuleScore(results[i], snap)
  /\ \A j \in 1..(i - 1) : RuleScore(results[j], snap) < RuleScore(results[i], snap)

\* the answers whose candidates can all be scored
ScorableLists ==
  {r.results : r \in {x \in HarvestSearchResponses :
                        x.kind = "list" /\ x.results # <<>> /\ ~ScoreRaises(x.results)}}

\* C14: for the snapshot of every harvest, the score of every candidate is
\* the rule score (2 per containment of a non-empty known value, 1 for a
\* file; HitA scores 5 for artist A, title T); of every answer the chosen
\* candidate is the first one of maximal score; and the id a harvest is
\* about to delete is the id of that candidate.
C14_ScoreAndSelection ==
  \A s \in Sids : \A k \in 1..Len(workers[s]) :
    LET w == workers[s][k] IN
    /\ \A results \in ScorableLists :
         /\ \A i \in 1..Len(results) : Score(results[i], w.snap) = RuleScore(results[i], w.snap)
         /\ \E i \in 1..Len(results) :
              /\ FirstOfMaxRuleScore(results, i, w.snap)
              /\ PyMax(results, w.snap) = results[i]
    /\ (w.snap.artist = <<"A">> /\ w.snap.track = <<"T">>) => Score(HitA, w.snap) = 5
    /\ (w.snap.artist = None /\ w.snap.track = <<"T">>) => Score(HitA, w.snap) = 3
    /\ w.pc = "delete" =>
         \E i \in 1..Len(w.results) :
           /\ FirstOfMaxRuleScore(w.results, i, w.snap)
           /\ w.match = w.results[i].id

\* C14 witness: a harvest is about to delete the first of two candidates of
\* equal, maximal score.
C14_Witness ==
  \E s \in Sids : \E k \in 1..Len(workers[s]) :
    LET w == workers[s][k] IN
    /\ w.pc = "delete"
    /\ w.results = <<HitA, HitA2>>
    /\ Score(HitA, w.snap) = Score(HitA2, w.snap)
    /\ w.match = HitA.id

\* "within 0.1 of c" read strictly and read inclusively (hundredths)
StrictlyWithin(raw, c) == raw.kind = "num" /\ Dist(raw.val, c) < 10
Within(raw, c) == raw.kind = "num" /\ Dist(raw.val, c) <= 10

\* the bucket the rule gives to raw, for either reading
RuleBucketStrict(raw) ==
  IF StrictlyWithin(raw, 1000) \/ StrictlyWithin(raw, 500) THEN "like"
  ELSE IF StrictlyWithin(raw, 200) \/ StrictlyWithin(raw, 100) THEN "dislike"
  ELSE "none"
RuleBucketInclusive(raw) ==
  IF Within(raw, 1000) \/ Within(raw, 500) THEN "like"
  ELSE IF Within(raw, 200) \/ Within(raw, 100) THEN "dislike"
  ELSE "none"

\* C15 (as claimed): normalize gives every raw value the bucket of the rule
\* (absent or unparsable: unrated; within 0.1 of 10 or 5: like; within 0.1 of
\* 2 or 1: dislike; else unrated), under one reading of "within" at least;
\* and the bucket a harvest acts on is the rule's bucket of its raw rating.
C15_NormalizeRule ==
  /\ \/ \A raw \in HarvestRatings : _normalize_rating(raw) = RuleBucketStrict(raw)
     \/ \A raw \in HarvestRatings : _normalize_rating(raw) = RuleBucketInclusive(raw)
  /\ \A s \in Sids : \A k \in 1..Len(workers[s]) :
       workers[s][k].pc \in {"load", "save", "lookup", "delete"} =>
         \/ workers[s][k].bucket = RuleBucketStrict(workers[s][k].raw)
         \/ workers[s][k].bucket = RuleBucketInclusive(workers[s][k].raw)

\* C16 (as claimed): an id whose worker has been started is in the scheduled
\* set.
C16_MarkedBeforeLaunch ==
  \A s \in Sids : Len(workers[s]) > 0 => s \in FINISHED_ALREADY_SCHEDULED

\* C17 (as claimed): once the scan loop has scheduled the worker of an id
\* (started it and marked the id), the id is no longer a key of the
\* terminated map.
C17_RemovedOncePending ==
  [][(scan_pc = "mark" /\ scan_pc' = "iter") =>
        scan_cur \notin DOMAIN RECENTLY_FINISHED']_vars

\* C18: a poll cycle that fails assigns nothing: last_active, the live map
\* and the terminated map are as before and nothing is inserted, and the next
\* cycle can take place; and a successful cycle inserts every id of
\* last_active that it does not list, however many cycles failed in between.
C18_FailedPollChangesNothing ==
  /\ [][PollFail =>
          /\ UNCHANGED <<last_active, CURRENT_TRACKS, RECENTLY_FINISHED>>
          /\ emitted' = NoEvents]_vars
  /\ [](ENABLED PollFail /\ ENABLED PollSuccess)
  /\ [][PollSuccess =>
          \A s \in last_active \ reported' :
            emitted'[s] = 1 /\ s \in DOMAIN RECENTLY_FINISHED']_vars

\* C18 witness: the last cycle inserted nothing while a session is active and
\* an earlier one is in the terminated map (the state a failed cycle leaves
\* as it is).
C18_Witness ==
  /\ emitted = NoEvents
  /\ last_active # {}
  /\ DOMAIN RECENTLY_FINISHED # {}
  /\ \E s \in DOMAIN RECENTLY_FINISHED : s \notin last_active

\* worker w is in the loop over the search terms, with nterms terms
NumTerms(w) == Len(SearchTerms(w.snap.artist, w.snap.track, w.snap.album, w.snap.guid))

\* C19 (as claimed): every request of the lookup either ends the loop with
\* the first candidate of maximal score of its answer, when that score is
\* >= 2 (no further term is queried), or moves on to the next term, or, after
\* the last term, makes the lookup return none; the lookup never ends in
\* another way.
C19_TermsInOrder ==
  [][\A s \in Sids : \A k \in 1..Len(workers[s]) :
       LET w == workers[s][k]
           w2 == workers'[s][k]
       IN (StepsFrom(s, k, "lookup") /\ lidarr_configured /\ NumTerms(w) > 0) =>
            /\ ~w2.raised
            /\ w2.pc \in {"lookup", "delete", "done"}
            /\ w2.pc = "lookup" => w2.term = w.term + 1
            /\ w2.pc = "done" => (w.term = NumTerms(w) /\ w2.match = NoId)
            /\ w2.pc = "delete" =>
                 \E i \in 1..Len(w2.results) :
                   /\ FirstOfMaxRuleScore(w2.results, i, w.snap)
                   /\ RuleScore(w2.results[i], w.snap) >= 2
                   /\ w2.match = w2.results[i].id]_vars

\* C20: a live snapshot is written only by a successful poll that lists its
\* id, so for an id of last_active it is the one observed by the last
\* successful poll; the snapshot inserted into the terminated map for an
\* ended id is that live snapshot; the scan loop's list holds the snapshots of
\* the terminated map as they were when the list was taken; and the worker
\* started for an id gets the list's snapshot of that id.
C20_TerminalSnapshot ==
  /\ [](last_active \subseteq DOMAIN CURRENT_TRACKS)
  /\ [][\A s \in Sids :
          /\ (s \in DOMAIN CURRENT_TRACKS /\ CURRENT_TRACKS'[s] # CURRENT_TRACKS[s])
               => s \in reported'
          /\ (emitted'[s] = 1 /\ pollVars' # pollVars)
               => /\ s \in last_active
                  /\ RECENTLY_FINISHED'[s] = CURRENT_TRACKS[s]
          /\ (s \in DOMAIN RECENTLY_FINISHED /\ ~(emitted'[s] = 1 /\ pollVars' # pollVars))
               => RECENTLY_FINISHED'[s] = RECENTLY_FINISHED[s]
          /\ (scan_pc = "sleep" /\ scan_pc' = "iter")
               => scan_items' = RECENTLY_FINISHED
          /\ (s \in DOMAIN scan_items /\ s \in DOMAIN scan_items')
               => scan_items'[s] = scan_items[s]
          /\ Len(workers'[s]) > Len(workers[s])
               => workers'[s][Len(workers'[s])].snap = scan_items[s]]_vars

\* C20 witness: an id has ended a second time with another snapshot than the
\* one its first event carried, which is the one its worker was given.
C20_Witness ==
  \E s \in Sids :
    /\ emitted[s] = 1
    /\ Len(workers[s]) = 1
    /\ workers[s][1].snap # RECENTLY_FINISHED[s]
    /\ RECENTLY_FINISHED[s] = CURRENT_TRACKS[s]

\* the ids of the terminated map whose snapshot has no metadata key
KeylessEnded ==
  {s \in DOMAIN RECENTLY_FINISHED : ~Truthy(RECENTLY_FINISHED[s].ratingKey)}

\* C21: a session whose snapshot has no ratingKey has the composite id
\* "artist-title"; the worker started for it has done nothing or has returned
\* at once (no metadata answer, no bucket, no store write, no search, no
\* delete); its steps leave both collections as they are; its id is in the
\* scheduled set (or is being put there), stays there, and no second worker is
\* ever started for it.
C21_KeylessSessionSkipped ==
  /\ [](\A s \in KeylessEnded :
          /\ s = Str(RECENTLY_FINISHED[s].artist) \o <<"-">>
                   \o Str(RECENTLY_FINISHED[s].track)
          /\ Len(workers[s]) <= 1
          /\ \A k \in 1..Len(workers[s]) :
               LET w == workers[s][k] IN
               /\ ~Truthy(w.snap.ratingKey)
               /\ <<w.pc, w.status>> \in {<<"fetch", "">>, <<"done", "nokey">>}
               /\ w.bucket = "" /\ w.acted = "" /\ ~w.raised
               /\ w.writes = 0 /\ ~w.searched /\ w.deletes = <<>>
               /\ s \in FINISHED_ALREADY_SCHEDULED \/ (scan_pc = "mark" /\ scan_cur = s))
  /\ [][\A s \in KeylessEnded :
          /\ \A k \in 1..Len(workers[s]) :
               /\ workers'[s][k] # workers[s][k] => (liked' = liked /\ disliked' = disliked)
               /\ workers[s][k].pc = "done" => workers'[s][k] = workers[s][k]
          /\ s \in FINISHED_ALREADY_SCHEDULED =>
               /\ s \in FINISHED_ALREADY_SCHEDULED'
               /\ Len(workers'[s]) = Len(workers[s])]_vars

\* C21 witness: the worker of a keyless session has returned, its id is
\* scheduled and the session is being played again; meanwhile the harvest of
\* a session with a ratingKey has written its preference.
C21_Witness ==
  \E s \in KeylessEnded : \E t \in KeylessSids :
    /\ Len(workers[s]) = 1 /\ workers[s][1].status = "nokey"
    /\ s \in FINISHED_ALREADY_SCHEDULED
    /\ s \in last_active
    /\ t # s /\ Len(workers[t]) = 1 /\ workers[t][1].writes = 1

====
